---- MODULE Spec2Model ----
(***************************************************************************)
(* A model of sfo-result (src/src/lib.rs): the generic error value         *)
(* Error<T>, its constructors and From conversions, its Debug and Display  *)
(* renderings, source(), the err! and into_err! macros with the log        *)
(* toggle, and the serde derive.                                           *)
(*                                                                         *)
(* Strings that are rendered are modelled as sequences of tokens: every    *)
(* literal piece a write! emits is one token, every interpolated value is  *)
(* one token.  Option<X> is modelled as a sequence: <<>> is None and <<x>>  *)
(* is Some(x).  Boxed errors live in a heap and are named by their index.  *)
(***************************************************************************)
EXTENDS Integers, Sequences, TLC

VARIABLES
    features,   \* cargo features of the build: backtrace, log, serde
    platform,   \* what std::backtrace gives on this target
    heap,       \* every error value built so far, by index
    owned,      \* the errors a caller still owns (not moved into a cause)
    env,        \* the counter that macro arguments read and advance
    maxLevel,   \* log::max_level() >= Error
    closure,    \* the closure into_err! returned, until map_err applies it
    wire,       \* the serialized form in flight, if any
    born,       \* history: for each heap index, how the error was built
    last        \* history: the last operation, its inputs and its result

vars == <<features, platform, heap, owned, env, maxLevel, closure, wire, born, last>>

----------------------------------------------------------------------------
(* Bounds of the model *)

MaxErrs == 3
MaxN == 2

----------------------------------------------------------------------------
(* Option *)

None == <<>>
Some(x) == <<x>>
IsSome(o) == o # <<>>
Unwrap(o) == o[1]

----------------------------------------------------------------------------
(* Values the callers supply *)

\* test::TestCode, with Test1 the #[default]
Codes == {"Test1", "Test2"}
DefaultCode == "Test1"
\* type_name::<T>()
TypeName == "sfo_result::test::TestCode"
Msgs == {"", "test"}
\* file!() and line!() of the call sites
NewSite == [file |-> "lib.rs", line |-> 282]
ErrSite == [file |-> "lib.rs", line |-> 285]
IntoErrSite == [file |-> "main.rs", line |-> 7]
FromSite == [file |-> "conv.rs", line |-> 3]

\* A foreign error (one that implements std::error::Error): its Debug and
\* Display renderings differ, as std::io::Error's do.
ForeignDebug == <<"Kind(PermissionDenied)">>
ForeignDisplay == <<"permission denied">>

Foreign ==
    [kind |-> "foreign", code |-> DefaultCode, msg |-> "", source |-> None,
     backtrace |-> None, file |-> None, line |-> None]

----------------------------------------------------------------------------
(* std::backtrace *)

Whitespace == {"\n", " "}
LowerPrefix == <<"s", "tack backtrace:">>
Header == <<"S", "tack backtrace:">>
Frames == <<"0: main">>

\* Backtrace::force_capture(): captured where the platform supports it.
\* Its text may or may not start with "stack backtrace:" (backtrace-rs #286).
ForceCapture ==
    IF platform.supported
    THEN [status |-> "Captured",
          text |-> IF platform.prefix
                   THEN LowerPrefix \o <<"\n">> \o Frames \o <<"\n">>
                   ELSE Frames \o <<"\n", " ">>]
    ELSE [status |-> "Unsupported", text |-> <<"unsupported backtrace">>]

\* a capture that ignores the feature
CaptureAlways == Some(ForceCapture)

\* the #[cfg(feature = "backtrace")] pair of lets every constructor starts with
CaptureIfEnabled ==
    IF features.backtrace THEN Some(ForceCapture) ELSE None

StartsWith(s, p) == Len(s) >= Len(p) /\ SubSeq(s, 1, Len(p)) = p

RECURSIVE TrimEnd(_)
TrimEnd(s) ==
    IF s # <<>> /\ s[Len(s)] \in Whitespace
    THEN TrimEnd(SubSeq(s, 1, Len(s) - 1))
    ELSE s

----------------------------------------------------------------------------
(* Constructors *)

\* a new that loses the message
NewDropsMsg(code, msg, file, line) ==
    [kind |-> "sfo", code |-> code, msg |-> "", source |-> None,
     backtrace |-> CaptureIfEnabled, file |-> Some(file), line |-> Some(line)]

\* a new that records no call site
NewWithoutSite(code, msg, file, line) ==
    [kind |-> "sfo", code |-> code, msg |-> msg, source |-> None,
     backtrace |-> CaptureIfEnabled, file |-> None, line |-> None]

\* Error::new
New(code, msg, file, line) ==
    [kind |-> "sfo", code |-> code, msg |-> msg, source |-> None,
     backtrace |-> CaptureIfEnabled, file |-> Some(file), line |-> Some(line)]

\* From<String>
FromString(value) ==
    [kind |-> "sfo", code |-> DefaultCode, msg |-> value, source |-> None,
     backtrace |-> CaptureIfEnabled, file |-> None, line |-> None]

\* a conversion that discards the cause
From3DropsCause(code, msg, e) ==
    [kind |-> "sfo", code |-> code, msg |-> msg, source |-> None,
     backtrace |-> CaptureIfEnabled, file |-> None, line |-> None]

\* From<(T, String, E)>
From3(code, msg, e) ==
    [kind |-> "sfo", code |-> code, msg |-> msg, source |-> Some(e),
     backtrace |-> CaptureIfEnabled, file |-> None, line |-> None]

\* From<(T, String, E, &str, u32)>
From5String(code, msg, e, file, line) ==
    [kind |-> "sfo", code |-> code, msg |-> msg, source |-> Some(e),
     backtrace |-> CaptureIfEnabled, file |-> Some(file), line |-> Some(line)]

\* From<(T, &str, E, &str, u32)>
From5Str(code, msg, e, file, line) ==
    [kind |-> "sfo", code |-> code, msg |-> msg, source |-> Some(e),
     backtrace |-> CaptureIfEnabled, file |-> Some(file), line |-> Some(line)]

----------------------------------------------------------------------------
(* Accessors *)

Code(e) == e.code
Msg(e) == e.msg
\* std::error::Error::source
Source(e) == IF IsSome(e.source) THEN Some(Unwrap(e.source)) ELSE None

----------------------------------------------------------------------------
(* Rendering *)

\* the backtrace section both fmt functions write
FmtBacktrace(e) ==
    IF IsSome(e.backtrace)
    THEN LET bt == Unwrap(e.backtrace) IN
         IF bt.status = "Captured"
         THEN LET text == bt.text
                  cap == IF StartsWith(text, LowerPrefix)
                         THEN [text EXCEPT ![1] = "S"]
                         ELSE text
                  head == IF StartsWith(text, LowerPrefix)
                          THEN <<"\n">>
                          ELSE <<"\n">> \o Header \o <<"\n">>
              IN head \o TrimEnd(cap)
         ELSE <<>>
    ELSE <<>>

FmtSite(e) ==
    IF IsSome(e.file) /\ IsSome(e.line)
    THEN <<" at:[", Unwrap(e.file), ":", ToString(Unwrap(e.line)), "]">>
    ELSE <<>>

\* a message section written for the empty message too
FmtMsgAlways(e) == <<", msg:", e.msg>>

FmtMsg(e) == IF e.msg # "" THEN <<", msg:", e.msg>> ELSE <<>>

RECURSIVE DebugCauseFirst(_, _)
\* a Debug that writes the cause before the backtrace
DebugCauseFirst(h, id) ==
    LET e == h[id] IN
    IF e.kind = "foreign" THEN ForeignDebug
    ELSE LET f1 == <<TypeName, ":", e.code>>
             f2 == f1 \o FmtSite(e)
             f3 == f2 \o FmtMsg(e)
             f4 == IF IsSome(e.source)
                   THEN f3 \o <<"\nCaused by: ">>
                           \o DebugCauseFirst(h, Unwrap(e.source))
                   ELSE f3
         IN f4 \o FmtBacktrace(e)

RECURSIVE DebugFmt(_, _)
\* impl Debug for Error<T>; a foreign error renders its own Debug
DebugFmt(h, id) ==
    LET e == h[id] IN
    IF e.kind = "foreign" THEN ForeignDebug
    ELSE LET f1 == <<TypeName, ":", e.code>>
             f2 == f1 \o FmtSite(e)
             f3 == f2 \o FmtMsg(e)
             f4 == f3 \o FmtBacktrace(e)
         IN IF IsSome(e.source)
            THEN f4 \o <<"\nCaused by: ">> \o DebugFmt(h, Unwrap(e.source))
            ELSE f4

RECURSIVE DisplayCause(_, _)
\* a Display that renders its cause with {} instead of {:?}
DisplayCause(h, id) ==
    LET e == h[id] IN
    IF e.kind = "foreign" THEN ForeignDisplay
    ELSE LET f1 == <<TypeName, ":", e.code>>
             f2 == f1 \o FmtSite(e)
             f3 == f2 \o FmtMsg(e)
             f4 == f3 \o FmtBacktrace(e)
         IN IF IsSome(e.source)
            THEN f4 \o <<"\nCaused by: ">> \o DisplayCause(h, Unwrap(e.source))
            ELSE f4

\* impl Display for Error<T>: the cause is written with {:?} here too
DisplayFmt(h, id) ==
    LET e == h[id]
        f1 == <<TypeName, ":", e.code>>
        f2 == f1 \o FmtSite(e)
        f3 == f2 \o FmtMsg(e)
        f4 == f3 \o FmtBacktrace(e)
    IN IF IsSome(e.source)
       THEN f4 \o <<"\nCaused by: ">> \o DebugFmt(h, Unwrap(e.source))
       ELSE f4

----------------------------------------------------------------------------
(* Macro arguments.  A code expression is a constant of the enum or "pick",
   which reads the counter; a format expression is "none" (the one-argument
   form of the macro), "lit" (format!("test")) or "next"
   (format!("{}", next()), which returns the counter and advances it). *)

\* the macro invocations the callers make: err!(Test2), err!(Test2, "test"),
\* err!(pick(), "{}", next()), and the same three for into_err!
MacroArgs ==
    {[code |-> "Test2", msg |-> "none"],
     [code |-> "Test2", msg |-> "lit"],
     [code |-> "pick", msg |-> "next"]}

EvalCode(x, n) ==
    IF x = "pick" THEN (IF n % 2 = 0 THEN "Test1" ELSE "Test2") ELSE x

\* format!($($arg)*): the string and the counter after evaluating it
FormatArgs(x, n) ==
    CASE x = "lit"  -> [val |-> "test", n |-> n]
      [] x = "next" -> [val |-> ToString(n), n |-> n + 1]
      [] OTHER      -> [val |-> "", n |-> n]

\* error!: with the log feature it is log::error!, which evaluates its
\* arguments and emits a record only when the level is enabled; without the
\* feature it expands to ()
LogEnabled(logFeature, level) == logFeature /\ level

\* err!: error!(..) first, then Error::new($err, format!(..), file!(), line!())
ErrMacro(logFeature, level, codeX, msgX, n) ==
    LET lg == IF LogEnabled(logFeature, level)
              THEN IF msgX = "none"
                   THEN [rec |-> Some(<<EvalCode(codeX, n)>>), n |-> n]
                   ELSE LET r0 == FormatArgs(msgX, n)
                        IN [rec |-> Some(<<r0.val>>), n |-> r0.n]
              ELSE [rec |-> None, n |-> n]
        code == EvalCode(codeX, lg.n)
        r == FormatArgs(msgX, lg.n)
    IN [err |-> New(code, r.val, ErrSite.file, ErrSite.line),
        n |-> r.n, rec |-> lg.rec]

\* into_err!: the closure |e| { .. }.  Nothing of its body runs here; the
\* closure holds the expressions, and file!() and line!() are constants of
\* the place the macro was written.
IntoErrMacro(codeX, msgX, n) ==
    [code |-> codeX, msg |-> msgX, file |-> IntoErrSite.file,
     line |-> IntoErrSite.line, made |-> n]

\* a closure that had evaluated its arguments when it was built
CallEager(logFeature, level, cl, e, n) ==
    LET code == EvalCode(cl.code, cl.made)
        r == FormatArgs(cl.msg, cl.made)
    IN [err |-> From5String(code, r.val, e, cl.file, cl.line),
        n |-> n, rec |-> None]

\* applying the closure to e: error!(..) first, then
\* Error::from(($err, format!(..), e, file!(), line!()))
Call(logFeature, level, cl, e, n) ==
    LET lg == IF LogEnabled(logFeature, level)
              THEN IF cl.msg = "none"
                   THEN [rec |-> Some(<<"err:">> \o DebugFmt(heap, e)), n |-> n]
                   ELSE LET r0 == FormatArgs(cl.msg, n)
                        IN [rec |-> Some(<<r0.val, " err:">> \o DebugFmt(heap, e)),
                            n |-> r0.n]
              ELSE [rec |-> None, n |-> n]
        code == EvalCode(cl.code, lg.n)
        r == FormatArgs(cl.msg, lg.n)
    IN [err |-> From5String(code, r.val, e, cl.file, cl.line),
        n |-> r.n, rec |-> lg.rec]

----------------------------------------------------------------------------
(* serde: the derive writes the fields that are not #[serde(skip)], by name,
   and reads them back by name; a skipped field gets its Default. *)

\* a derive with file and line skipped as well
SerializeCodeMsgOnly(e) ==
    [code |-> <<"variant", e.code>>, msg |-> <<"str", e.msg>>,
     file |-> <<"null">>, line |-> <<"null">>]

Serialize(e) ==
    [code |-> <<"variant", e.code>>,
     msg |-> <<"str", e.msg>>,
     file |-> IF IsSome(e.file) THEN <<"str", Unwrap(e.file)>> ELSE <<"null">>,
     line |-> IF IsSome(e.line) THEN <<"num", Unwrap(e.line)>> ELSE <<"null">>]

Deserialize(w) ==
    [kind |-> "sfo", code |-> w.code[2], msg |-> w.msg[2], source |-> None,
     backtrace |-> None,
     file |-> IF w.file[1] = "null" THEN None ELSE Some(w.file[2]),
     line |-> IF w.line[1] = "null" THEN None ELSE Some(w.line[2])]

----------------------------------------------------------------------------------------------------------------------------------------------
(* Initial states: one build (its cargo features) on one target.  B, L and S
   are the values the features backtrace, log and serde are drawn from, P the
   targets. *)

\* targets: no backtrace support; support, with the text as it is since
\* backtrace-rs #286; support, with the older text
Platforms ==
    {[supported |-> FALSE, prefix |-> FALSE],
     [supported |-> TRUE, prefix |-> FALSE],
     [supported |-> TRUE, prefix |-> TRUE]}

InitOf(B, L, S, P) ==
    /\ features \in [backtrace : B, log : L, serde : S]
    /\ platform \in P
    /\ heap = <<>>
    /\ owned = {}
    /\ env = 0
    /\ maxLevel = FALSE
    /\ closure = None
    /\ wire = None
    /\ born = <<>>
    /\ last = [op |-> "init"]

Modern == {[supported |-> TRUE, prefix |-> FALSE]}

Init == InitOf(BOOLEAN, {FALSE}, {FALSE}, Platforms)
InitAll == InitOf(BOOLEAN, {FALSE}, {FALSE}, Modern)
InitMacro == InitOf({FALSE}, BOOLEAN, {FALSE}, Modern)
InitSerde == InitOf(BOOLEAN, {FALSE}, {TRUE}, Modern)

Build == UNCHANGED <<features, platform>>

\* The error e enters the heap at the next index; born records the operation
\* that built it, the cause it was given (0: none) and the fields it got.
Push(e, op, cause) ==
    /\ Len(heap) < MaxErrs
    /\ heap' = Append(heap, e)
    /\ born' = Append(born,
                 [op |-> op, cause |-> cause,
                  wraps |-> IF cause = 0 THEN 0 ELSE born[cause].wraps + 1,
                  code |-> e.code, msg |-> e.msg, file |-> e.file, line |-> e.line])

----------------------------------------------------------------------------
(* Actions *)

\* Error::new(code, msg, file!(), line!()) called directly
DoNew ==
    \E c \in Codes, m \in Msgs :
        /\ Push(New(c, m, NewSite.file, NewSite.line), "new", 0)
        /\ owned' = owned \cup {Len(heap) + 1}
        /\ last' = [op |-> "new", id |-> Len(heap) + 1, code |-> c, msg |-> m]
        /\ UNCHANGED <<env, maxLevel, closure, wire>>
        /\ Build

\* Error::from(String)
DoFromString ==
    \E m \in Msgs :
        /\ Push(FromString(m), "from_string", 0)
        /\ owned' = owned \cup {Len(heap) + 1}
        /\ last' = [op |-> "from_string", id |-> Len(heap) + 1, msg |-> m]
        /\ UNCHANGED <<env, maxLevel, closure, wire>>
        /\ Build

\* a fallible operation of another library fails
DoForeign ==
    /\ Push(Foreign, "foreign", 0)
    /\ owned' = owned \cup {Len(heap) + 1}
    /\ last' = [op |-> "foreign", id |-> Len(heap) + 1]
    /\ UNCHANGED <<env, maxLevel, closure, wire>>
    /\ Build

\* Error::from((code, msg, e)): e is moved into the new error
DoFrom3 ==
    \E c \in Codes, m \in Msgs, e \in owned :
        /\ Push(From3(c, m, e), "from3", e)
        /\ owned' = (owned \ {e}) \cup {Len(heap) + 1}
        /\ last' = [op |-> "from3", id |-> Len(heap) + 1, code |-> c, msg |-> m,
                    cause |-> e]
        /\ UNCHANGED <<env, maxLevel, closure, wire>>
        /\ Build

\* Error::from((code, msg: String, e, file, line))
DoFrom5String ==
    \E c \in Codes, m \in Msgs, e \in owned :
        /\ Push(From5String(c, m, e, FromSite.file, FromSite.line), "from5", e)
        /\ owned' = (owned \ {e}) \cup {Len(heap) + 1}
        /\ last' = [op |-> "from5", id |-> Len(heap) + 1, code |-> c, msg |-> m,
                    cause |-> e]
        /\ UNCHANGED <<env, maxLevel, closure, wire>>
        /\ Build

\* Error::from((code, msg: &str, e, file, line))
DoFrom5Str ==
    \E c \in Codes, m \in Msgs, e \in owned :
        /\ Push(From5Str(c, m, e, FromSite.file, FromSite.line), "from5", e)
        /\ owned' = (owned \ {e}) \cup {Len(heap) + 1}
        /\ last' = [op |-> "from5", id |-> Len(heap) + 1, code |-> c, msg |-> m,
                    cause |-> e]
        /\ UNCHANGED <<env, maxLevel, closure, wire>>
        /\ Build

\* err!(code) and err!(code, "..", args)
DoErr ==
    \E a \in MacroArgs :
        LET cx == a.code
            mx == a.msg
            r == ErrMacro(features.log, maxLevel, cx, mx, env) IN
        /\ r.n <= MaxN
        /\ Push(r.err, "err", 0)
        /\ owned' = owned \cup {Len(heap) + 1}
        /\ env' = r.n
        /\ last' = [op |-> "err", id |-> Len(heap) + 1, code |-> cx, msg |-> mx,
                    n |-> env, rec |-> r.rec]
        /\ UNCHANGED <<maxLevel, closure, wire>>
        /\ Build

\* into_err!(code) and into_err!(code, "..", args): the closure is built
DoIntoErr ==
    \E a \in MacroArgs :
        LET cx == a.code
            mx == a.msg
        IN
        /\ closure' = Some(IntoErrMacro(cx, mx, env))
        /\ last' = [op |-> "into_err", code |-> cx, msg |-> mx, n |-> env]
        /\ UNCHANGED <<heap, born, owned, env, maxLevel, wire>>
        /\ Build

\* result.map_err(closure) on an Err(e): the closure is applied to e
DoCall ==
    \E e \in owned :
        LET cl == Unwrap(closure)
            r == Call(features.log, maxLevel, cl, e, env)
        IN
        /\ IsSome(closure)
        /\ r.n <= MaxN
        /\ Push(r.err, "call", e)
        /\ owned' = (owned \ {e}) \cup {Len(heap) + 1}
        /\ env' = r.n
        /\ closure' = None
        /\ last' = [op |-> "call", id |-> Len(heap) + 1, cl |-> cl, cause |-> e,
                    n |-> env, rec |-> r.rec]
        /\ UNCHANGED <<maxLevel, wire>>
        /\ Build

\* the program advances the counter the macro arguments read
DoTick ==
    /\ env < MaxN
    /\ env' = env + 1
    /\ last' = [op |-> "tick"]
    /\ UNCHANGED <<heap, born, owned, maxLevel, closure, wire>>
    /\ Build

\* log::set_max_level
DoSetMaxLevel ==
    /\ features.log
    /\ maxLevel' = ~maxLevel
    /\ last' = [op |-> "set_max_level"]
    /\ UNCHANGED <<heap, born, owned, env, closure, wire>>
    /\ Build

\* format!("{:?}", e) and format!("{}", e) of an Error<T>
DoFmt ==
    \E id \in owned :
        /\ heap[id].kind = "sfo"
        /\ last' = [op |-> "fmt", id |-> id, debug |-> DebugFmt(heap, id),
                    display |-> DisplayFmt(heap, id)]
        /\ UNCHANGED <<heap, born, owned, env, maxLevel, closure, wire>>
        /\ Build

\* e.source() of an Error<T>
DoSource ==
    \E id \in DOMAIN heap :
        /\ heap[id].kind = "sfo"
        /\ last' = [op |-> "source", id |-> id, out |-> Source(heap[id])]
        /\ UNCHANGED <<heap, born, owned, env, maxLevel, closure, wire>>
        /\ Build

\* serializing an error (feature serde)
DoSerialize ==
    \E id \in owned :
        /\ features.serde
        /\ heap[id].kind = "sfo"
        /\ wire = None
        /\ wire' = Some([from |-> id, data |-> Serialize(heap[id])])
        /\ last' = [op |-> "serialize", id |-> id]
        /\ UNCHANGED <<heap, born, owned, env, maxLevel, closure>>
        /\ Build

\* deserializing what was serialized
DoDeserialize ==
    /\ features.serde
    /\ IsSome(wire)
    /\ Push(Deserialize(Unwrap(wire).data), "deserialize", 0)
    /\ owned' = owned \cup {Len(heap) + 1}
    /\ wire' = None
    /\ last' = [op |-> "deserialize", id |-> Len(heap) + 1,
                from |-> Unwrap(wire).from]
    /\ UNCHANGED <<env, maxLevel, closure>>
    /\ Build

----------------------------------------------------------------------------
(* Specifications.  The operations are grouped by what they touch; each
   specification draws the features its operations read. *)

\* the value itself: constructors, conversions, rendering, source()
Next ==
    \/ DoNew
    \/ DoFromString
    \/ DoForeign
    \/ DoFrom3
    \/ DoFrom5String
    \/ DoFrom5Str
    \/ DoFmt
    \/ DoSource

Spec == Init /\ [][Next]_vars

\* every way of building an error, the macros included
NextAll ==
    \/ DoNew
    \/ DoFromString
    \/ DoForeign
    \/ DoFrom3
    \/ DoFrom5String
    \/ DoFrom5Str
    \/ DoErr
    \/ DoIntoErr
    \/ DoCall

SpecAll == InitAll /\ [][NextAll]_vars

\* the macros, the state their arguments read, and the log level
NextMacro ==
    \/ DoForeign
    \/ DoErr
    \/ DoIntoErr
    \/ DoCall
    \/ DoTick
    \/ DoSetMaxLevel

SpecMacro == InitMacro /\ [][NextMacro]_vars

\* the serde derive
NextSerde ==
    \/ DoNew
    \/ DoFromString
    \/ DoForeign
    \/ DoFrom5String
    \/ DoSerialize
    \/ DoDeserialize

SpecSerde == InitSerde /\ [][NextSerde]_vars

----------------------------------------------------------------------------
(* What the claims speak of *)

Has(s, tok) == \E i \in DOMAIN s : s[i] = tok

HasHeader(s) == \E i \in 1..(Len(s) - 1) : SubSeq(s, i, i + 1) = Header

\* the part of a rendering before its first "Caused by: " section
OwnPart(s) ==
    IF Has(s, "\nCaused by: ")
    THEN SubSeq(s, 1, (CHOOSE i \in DOMAIN s :
                          /\ s[i] = "\nCaused by: "
                          /\ \A j \in 1..(i - 1) : s[j] # "\nCaused by: ") - 1)
    ELSE s

Section(present, toks) == IF present THEN toks ELSE <<>>

\* the frames of a captured trace: its text without a leading
\* "stack backtrace:" line and without trailing whitespace
TraceBody(bt) ==
    TrimEnd(IF StartsWith(bt.text, LowerPrefix \o <<"\n">>)
            THEN SubSeq(bt.text, Len(LowerPrefix) + 2, Len(bt.text))
            ELSE bt.text)

TraceSection(bt) ==
    Section(bt # None /\ (bt # None => Unwrap(bt).status = "Captured"),
            <<"\n">> \o Header \o <<"\n">>
            \o (IF bt # None THEN TraceBody(Unwrap(bt)) ELSE <<>>))

SiteSection(file, line) ==
    Section(file # None /\ line # None,
            <<" at:[">> \o file \o <<":">>
            \o (IF line # None THEN <<ToString(Unwrap(line))>> ELSE <<>>)
            \o <<"]">>)

RECURSIVE Sections(_)
\* the rendering as the formatting contract words it, section by section
Sections(id) ==
    LET e == heap[id] IN
    IF e.kind = "foreign" THEN ForeignDebug
    ELSE <<TypeName, ":", e.code>>
         \o SiteSection(e.file, e.line)
         \o Section(e.msg # "", <<", msg:", e.msg>>)
         \o TraceSection(e.backtrace)
         \o (IF e.source # None
             THEN <<"\nCaused by: ">> \o Sections(Unwrap(e.source))
             ELSE <<>>)

RECURSIVE Walk(_, _)
\* following source() from id, at most fuel steps: the errors visited, and
\* whether the walk ended at an absent source
Walk(id, fuel) ==
    IF fuel = 0 THEN [path |-> <<>>, ended |-> FALSE]
    ELSE LET s == Source(heap[id]) IN
         IF IsSome(s)
         THEN LET r == Walk(Unwrap(s), fuel - 1)
              IN [path |-> <<id>> \o r.path, ended |-> r.ended]
         ELSE [path |-> <<id>>, ended |-> TRUE]

RECURSIVE Layers(_)
\* the layers of id as the operations that built them recorded them
Layers(id) ==
    IF born[id].cause = 0 THEN <<id>> ELSE <<id>> \o Layers(born[id].cause)

----------------------------------------------------------------------------
(* C1.  Error::new(c, m, ..) yields an error whose code() is c and whose
   msg() is m, the empty message included, and no step (rendering, source(),
   being moved into another error as its cause) changes the code or the
   message of an error that exists. *)
C1_CodeAndMsgAreKept ==
    [][/\ \A i \in DOMAIN heap :
             /\ i \in DOMAIN heap'
             /\ Code(heap'[i]) = Code(heap[i])
             /\ Msg(heap'[i]) = Msg(heap[i])
       /\ last'.op = "new" =>
             /\ Code(heap'[last'.id]) = last'.code
             /\ Msg(heap'[last'.id]) = last'.msg]_vars

\* an error built by new with the empty message has been moved into another
\* error as its cause, and the outer error has just been rendered
C1_Witness ==
    /\ last.op = "fmt"
    /\ \E i \in DOMAIN heap :
          /\ born[i].op = "new"
          /\ Msg(heap[i]) = ""
          /\ i \notin owned
          /\ heap[last.id].source = Some(i)

(* C2.  The Debug rendering of an error is the concatenation, in this order,
   of the type name and code; the call-site section iff a call site was
   recorded; the message section iff the message is non-empty; the
   "Stack backtrace:" section iff a trace is present and was captured; the
   "Caused by: " section with the cause's Debug rendering iff there is a
   cause. *)
C2_RenderingIsTheSections ==
    last.op = "fmt" => last.debug = Sections(last.id)

\* an error with call site, message, captured trace and a cause that has a
\* cause of its own has been rendered
C2_Witness ==
    /\ last.op = "fmt"
    /\ LET e == heap[last.id] IN
       /\ e.file # None
       /\ e.msg # ""
       /\ e.backtrace # None
       /\ platform.supported
       /\ e.source # None
       /\ heap[Unwrap(e.source)].source # None

(* C3.  The Debug rendering and the Display rendering of an error are the
   same string. *)
C3_DebugEqualsDisplay ==
    last.op = "fmt" => last.debug = last.display

\* an error whose cause is a foreign error (whose own Debug and Display
\* differ) has been rendered
C3_Witness ==
    /\ last.op = "fmt"
    /\ heap[last.id].kind = "sfo"
    /\ heap[last.id].source # None
    /\ heap[Unwrap(heap[last.id].source)].kind = "foreign"

C5_WalkVisitsEveryLayer ==
    \A id \in owned :
        LET w == Walk(id, Len(heap) + 1) IN
        /\ w.ended
        /\ Len(w.path) = born[id].wraps + 1
        /\ w.path = Layers(id)
        /\ \A j \in 1..(Len(w.path) - 1) : w.path[j + 1] < w.path[j]
        /\ \A j \in DOMAIN w.path :
              LET e == heap[w.path[j]]
                  b == born[w.path[j]]
              IN e.code = b.code /\ e.msg = b.msg /\ e.file = b.file
                 /\ e.line = b.line

\* an error wrapped twice, once by From<(code, msg, cause)> and once by an
\* into_err! closure
C5_Witness ==
    \E id \in owned :
        /\ born[id].wraps = 2
        /\ {born[id].op, born[born[id].cause].op} = {"from3", "call"}

(* C6 as claimed.  The error an into_err! closure returns carries the code
   and the message as the macro's arguments evaluated when into_err! was
   invoked, whatever changed before the closure was applied, with e as its
   cause. *)
C6_CapturedAtInvocation ==
    last.op = "call" =>
        LET e == heap[last.id]
            cl == last.cl
        IN /\ e.code = EvalCode(cl.code, cl.made)
           /\ e.msg = FormatArgs(cl.msg, cl.made).val
           /\ e.source = Some(last.cause)

(* C6 as amended.  The error an into_err! closure returns has e as its cause
   and the call site of the into_err! invocation, but its code and message
   are the macro's arguments as they evaluate when the closure is applied:
   the code expression and the format arguments are evaluated then (after the
   logging step's own evaluation of the format arguments, when that step
   runs), not when into_err! was invoked. *)
C6_EvaluatedAtApplication ==
    last.op = "call" =>
        LET e == heap[last.id]
            cl == last.cl
            logged == last.rec # None
            at == IF logged THEN FormatArgs(cl.msg, last.n).n ELSE last.n
        IN /\ e.source = Some(last.cause)
           /\ e.file = Some(IntoErrSite.file)
           /\ e.line = Some(IntoErrSite.line)
           /\ e.code = EvalCode(cl.code, at)
           /\ e.msg = FormatArgs(cl.msg, at).val
           /\ logged = (features.log /\ maxLevel)

\* a closure whose arguments read the counter has been applied after the
\* counter changed, and the error differs from what the invocation would give
C6_Witness ==
    /\ last.op = "call"
    /\ last.cl.msg = "next"
    /\ last.cl.made # last.n
    /\ heap[last.id].msg # FormatArgs(last.cl.msg, last.cl.made).val

(* C7.  The error err! returns with the log feature on has the code, message
   and call site of the error the same invocation returns with the feature
   off, also when evaluating the format arguments has an effect. *)
C7_LoggingDoesNotChangeTheError ==
    last.op = "err" =>
        LET e == heap[last.id]
            off == ErrMacro(FALSE, maxLevel, last.code, last.msg, last.n).err
        IN /\ e.code = off.code
           /\ e.msg = off.msg
           /\ e.file = off.file
           /\ e.line = off.line

(* C8 as claimed.  The rendering of an error whose message is empty never
   contains ", msg:", whatever its cause. *)
C8_NoMsgTokenAnywhere ==
    (last.op = "fmt" /\ heap[last.id].msg = "") =>
        /\ ~Has(last.debug, ", msg:")
        /\ ~Has(last.display, ", msg:")

(* C8 as amended.  The rendering of an error whose message is empty has no
   message section of its own: ", msg:" does not occur before its
   "Caused by: " section (it occurs after it when a cause has a message). *)
C8_NoMsgSectionOfItsOwn ==
    (last.op = "fmt" /\ heap[last.id].msg = "") =>
        /\ ~Has(OwnPart(last.debug), ", msg:")
        /\ ~Has(OwnPart(last.display), ", msg:")

\* an error with the empty message whose cause has a message has been rendered
C8_Witness ==
    /\ last.op = "fmt"
    /\ heap[last.id].msg = ""
    /\ heap[last.id].source # None
    /\ heap[Unwrap(heap[last.id].source)].msg # ""
    /\ Has(last.debug, ", msg:")

(* C9.  In a build without the backtrace feature every error has an absent
   trace, whichever constructor, conversion or macro built it, and neither
   rendering of it contains "Stack backtrace:". *)
C9_NoTraceWithoutFeature ==
    ~features.backtrace =>
        \A i \in DOMAIN heap :
            heap[i].kind = "sfo" =>
                /\ heap[i].backtrace = None
                /\ ~HasHeader(DebugFmt(heap, i))
                /\ ~HasHeader(DisplayFmt(heap, i))

\* a build without the feature holds errors built by err!, by an into_err!
\* closure and by a From conversion
C9_Witness ==
    /\ ~features.backtrace
    /\ \E i \in DOMAIN heap : born[i].op = "err"
    /\ \E i \in DOMAIN heap : born[i].op = "call"
    /\ \E i \in DOMAIN heap : born[i].op \in {"from3", "from5"}

(* C10 as claimed.  Deserializing a serialized error gives an error with the
   code and message of the original and nothing else of it: no cause, no
   trace, no call-site file or line. *)
C10_OnlyCodeAndMsgTravel ==
    last.op = "deserialize" =>
        LET e == heap[last.id]
            o == heap[last.from]
        IN /\ Code(e) = Code(o)
           /\ Msg(e) = Msg(o)
           /\ e.source = None
           /\ e.backtrace = None
           /\ e.file = None
           /\ e.line = None

(* C10 as amended.  Deserializing a serialized error gives an error with the
   code, the message and the call site (file and line) of the original; the
   cause and the trace are not serialized and are absent afterwards. *)
C10_CodeMsgAndSiteTravel ==
    /\ last.op = "deserialize" =>
          LET e == heap[last.id]
              o == heap[last.from]
          IN /\ Code(e) = Code(o)
             /\ Msg(e) = Msg(o)
             /\ e.file = o.file
             /\ e.line = o.line
             /\ e.source = None
             /\ e.backtrace = None
    /\ wire # None => DOMAIN Unwrap(wire).data = {"code", "msg", "file", "line"}

\* an error with a message, a call site, a trace and a cause has been through
\* the round trip
C10_Witness ==
    /\ last.op = "deserialize"
    /\ LET o == heap[last.from] IN
       /\ o.msg # ""
       /\ o.file # None
       /\ o.backtrace # None
       /\ o.source # None

====
